---------------------------- MODULE Spec2Model ----------------------------
(***************************************************************************)
(* Model of custom_components/thermal_comfort/sensor.py: the entity        *)
(* SensorThermalComfort (two state listeners, the scheduled update,        *)
(* async_update) and the six static compute_* formulas.                    *)
(*                                                                         *)
(* Python floats are modelled in fixed point: a real x is the integer      *)
(* x * Scale, every product and quotient rounded to the nearest unit.      *)
(* Scale is a multiple of 900 so that the Celsius <-> Fahrenheit           *)
(* conversions are exact on decimal readings and the band ends of the      *)
(* formulas (70, 80, 87, 112 F) are met exactly.  Values published by      *)
(* round(x, 2) are integers in hundredths.                                 *)
(***************************************************************************)
EXTENDS Integers, Sequences, FiniteSets, TLC

Scale == 9 * 10000

Abs(x) == IF x < 0 THEN -x ELSE x

(* One digit of the long multiplication below: from <<q, r>> of the higher  *)
(* digits, <<q, r>> with the next digit of b taken in.                     *)
MulDivStep(high, a, digit, radix, c) ==
    <<high[1] * radix
        + (((high[2] * radix) \div c) + (a \div c) * digit
           + (((a % c) * digit) \div c)
           + ((((high[2] * radix) % c) + (((a % c) * digit) % c)) \div c)),
      (((high[2] * radix) % c) + (((a % c) * digit) % c)) % c>>

(* <<q, r>> with a * b = q * c + r and 0 <= r < c, for a, b >= 0 and       *)
(* 0 < c < 2^30: long multiplication of a by the digits of b in the        *)
(* largest radix for which no intermediate exceeds 32 bits.                *)
RECURSIVE MulDivQR(_, _, _)
MulDivQR(a, b, c) ==
    IF b = 0 THEN <<0, 0>>
    ELSE MulDivStep(MulDivQR(a, b \div (2147483647 \div c), c), a,
                    b % (2147483647 \div c), 2147483647 \div c, c)

(* The quotient <<q, r>> of a division by c, rounded to the nearest         *)
(* integer.                                                                *)
Nearest(qr, c) == qr[1] + (IF 2 * qr[2] >= c THEN 1 ELSE 0)

(* a * b / c rounded to the nearest integer (c > 0). *)
MulDiv(a, b, c) ==
    IF (a < 0) = (b < 0) THEN Nearest(MulDivQR(Abs(a), Abs(b), c), c)
    ELSE -Nearest(MulDivQR(Abs(a), Abs(b), c), c)

(* <<q, r>> with a * b = q * k * k + r and 0 <= r < k * k, for a, b >= 0   *)
(* and k * k < 2^30, from the two digits of a and of b in radix k:         *)
(* a * b = hh k^2 + (x + y) k + z, where x, y < 2^31 and z < k^2.          *)
MulDivSqLow(q, t, z, k) ==
    <<q + (t \div k) + (((t % k) * k + z) \div (k * k)),
      ((t % k) * k + z) % (k * k)>>

MulDivSqSum(hh, x, y, z, k) ==
    MulDivSqLow(hh + (x \div k) + (y \div k), (x % k) + (y % k), z, k)

MulDivSqQR(a, b, k) ==
    MulDivSqSum((a \div k) * (b \div k), (a \div k) * (b % k),
                (a % k) * (b \div k), (a % k) * (b % k), k)

(* a * b / (k * k) rounded to the nearest integer, without recursion. *)
MulDivSq(a, b, k) ==
    IF (a < 0) = (b < 0) THEN Nearest(MulDivSqQR(Abs(a), Abs(b), k), k * k)
    ELSE -Nearest(MulDivSqQR(Abs(a), Abs(b), k), k * k)

(* The square root of Scale. *)
Root == 3 * 100

(* The float literal n / d. *)
Fx(n, d) == MulDiv(n, Scale, d)

(* Float product and quotient. *)
Mul(a, b) == MulDivSq(a, b, Root)
Div(a, b) == IF b < 0 THEN MulDiv(-a, Scale, -b) ELSE MulDiv(a, Scale, b)

(* math.log(x) for x > 0: x = m * 2^k with 1 <= m < 2, then                *)
(* ln x = k ln 2 + 2 atanh((m - 1) / (m + 1)), atanh by its series.        *)
RECURSIVE Norm2(_, _)
Norm2(x, k) ==
    IF x >= 2 * Scale THEN Norm2((x + 1) \div 2, k + 1)
    ELSE IF x < Scale THEN Norm2(2 * x, k - 1)
    ELSE <<x, k>>

(* a / n rounded to the nearest integer (n > 0). *)
RoundDiv(a, n) == (2 * a + n) \div (2 * n)

AtanhSum(z, z3, z4, z5, z7) ==
    z + RoundDiv(z3, 3) + RoundDiv(z5, 5) + RoundDiv(z7, 7)
    + RoundDiv(Mul(z5, z4), 9) + RoundDiv(Mul(z7, z4), 11)

AtanhPowers(z, z3, z4) == AtanhSum(z, z3, z4, Mul(z, z4), Mul(z3, z4))

AtanhSeries(z, z2) == AtanhPowers(z, Mul(z, z2), Mul(z2, z2))

Atanh(z) == AtanhSeries(z, Mul(z, z))

LnNorm(mk) ==
    MulDivSq(mk[2] * 693147, Scale, 1000)
    + 2 * Atanh(Div(mk[1] - Scale, mk[1] + Scale))

Ln(x) == LnNorm(Norm2(x, 0))

(* math.exp(x): x = k ln 2 + r with |r| <= ln 2 / 2, e^r by its Taylor     *)
(* series, times 2^k.                                                      *)
ExpSum(r, r2, r3, r4) ==
    Scale + r + RoundDiv(r2, 2) + RoundDiv(r3, 6) + RoundDiv(r4, 24)
    + RoundDiv(Mul(r4, r), 120) + RoundDiv(Mul(r4, r2), 720)

ExpPowers(r, r2) == ExpSum(r, r2, Mul(r2, r), Mul(r2, r2))

ExpSeries(r) == ExpPowers(r, Mul(r, r))

ExpShift(k, er) == IF k >= 0 THEN er * 2 ^ k ELSE RoundDiv(er, 2 ^ (-k))

ExpSplit(x, k) == ExpShift(k, ExpSeries(x - MulDivSq(k * 693147, Scale, 1000)))

Ln2 == Fx(693147, 1000000)

Exp(x) ==
    ExpSplit(x, IF x >= 0 THEN (x + Ln2 \div 2) \div Ln2
                ELSE -((Ln2 \div 2 - x) \div Ln2))

(* math.log(x, 10) and pow(10, y), with ln 10 = 2.302585. *)
Log10(x) == MulDiv(Ln(x), 1000000, 2302585)
Pow10(y) == Exp(MulDivSq(y, 2302585, 1000))

(* math.sqrt(x) for 0 <= x < 128: the largest y with y * y <= x, found     *)
(* one digit of radix 16 at a time, from the digit worth `step`.           *)
SqrtDigit(x, lo, step) ==
    CHOOSE y \in {lo + d * step : d \in 0..15} :
        /\ MulDivSqQR(y, y, Root)[1] <= x
        /\ \A d \in 0..15 :
              lo + d * step > y => MulDivSqQR(lo + d * step, lo + d * step,
                                              Root)[1] > x

RECURSIVE SqrtIn(_, _, _)
SqrtIn(x, lo, step) ==
    IF step = 0 THEN lo ELSE SqrtIn(x, SqrtDigit(x, lo, step), step \div 16)

Sqrt(x) == SqrtIn(x, 0, 16 ^ 4)

(* round(x, 2), in hundredths; an exact tie goes to the even hundredth. *)
Round2(x) ==
    LET u  == Scale \div 100
        q  == Abs(x) \div u
        r  == Abs(x) % u
        m  == IF 2 * r > u \/ (2 * r = u /\ q % 2 = 1) THEN q + 1 ELSE q
    IN  IF x < 0 THEN -m ELSE m

(* util.temperature.celsius_to_fahrenheit and fahrenheit_to_celsius. *)
celsius_to_fahrenheit(c) == MulDiv(c, 9, 5) + 32 * Scale
fahrenheit_to_celsius(f) == MulDiv(f - 32 * Scale, 5, 9)

(* Python values: None, a float (fixed point, or hundredths once rounded),  *)
(* a str, or a raised exception.                                           *)
None == [tag |-> "None", num |-> 0, str |-> ""]
Num(n) == [tag |-> "float", num |-> n, str |-> ""]
Str(s) == [tag |-> "str", num |-> 0, str |-> s]
Raise(e) == [tag |-> "raise", num |-> 0, str |-> e]

(* Python truthiness of a cached reading: None and 0.0 are falsy. *)
Truthy(v) == v.tag = "float" /\ v.num # 0

(* Lines 201-206 of compute_dew_point: sum, from a0. *)
dew_point_sum(a0) ==
    Mul(Fx(-790298, 100000), a0 - Scale)
    + Mul(Fx(502808, 100000), Log10(a0))
    + MulDiv(MulDivSq(Pow10(Mul(Fx(11344, 1000), Scale - Div(Scale, a0)))
                        - Scale, -13816, 1000), 1, 100000)
    + MulDivSq(Pow10(Mul(Fx(-349149, 100000), a0 - Scale)) - Scale,
               813280, 10000)
    + Log10(Fx(1013246, 1000))

(* Lines 207-208: the argument of math.log, vp / 0.61078.  vp is carried   *)
(* times 100 (and so is 0.61078) to keep its digits in 32 bits.            *)
dew_point_log_arg(temperature, humidity) ==
    Div(MulDiv(Pow10(dew_point_sum(Div(Fx(37315, 100),
                                        Fx(27315, 100) + temperature))),
               humidity, 10 * Scale),
        Fx(61078, 1000))

(* Lines 209-210. *)
dew_point_td(td) ==
    Num(Round2(Div(Mul(Fx(24188, 100), td), Fx(17558, 1000) - td)))

(* Variant: a logarithm that answers a number outside its domain. *)
dew_point_log_silent(arg) ==
    IF arg <= 0 THEN Num(-27315) ELSE dew_point_td(Ln(arg))

(* Line 208: math.log raises ValueError on an argument <= 0. *)
dew_point_log(arg) ==
    IF arg <= 0 THEN Raise("ValueError") ELSE dew_point_td(Ln(arg))

compute_dew_point(temperature, humidity) ==
    dew_point_log(dew_point_log_arg(temperature, humidity))

(* Lines 216-218: the simple (Steadman) value, in Fahrenheit. *)
heat_index_simple(f, rh) ==
    Mul(Fx(5, 10), f + 61 * Scale + Mul(f - 68 * Scale, Fx(12, 10))
                   + Mul(rh, Fx(94, 1000)))

(* Lines 221-228: the Rothfusz regression.  The last two products are      *)
(* grouped so that every intermediate fits in 32 bits.                     *)
heat_index_terms(f, rh, ff, fh) ==
    Fx(-42379, 1000) + MulDivSq(f, 204901523, 10000)
    + MulDivSq(rh, 1014333127, 10000)
    + MulDivSq(fh, -22475541, 10000)
    + MulDivSq(ff, -683783, 10000)
    + MulDivSq(Mul(rh, rh), -5481717, 10000)
    + Mul(MulDivSq(ff, 122874, 10000), rh)
    + Mul(MulDivSq(fh, 85282, 10000), rh)
    + MulDivSq(MulDivSq(fh, fh, 100 * Root), -199, 100)

heat_index_regression(f, rh) == heat_index_terms(f, rh, Mul(f, f), Mul(f, rh))

(* Variant: the regression also replaces a simple value of exactly 79. *)
heat_index_uses_regression_inclusive(f, rh) ==
    heat_index_simple(f, rh) >= 79 * Scale

(* Line 220: the regression replaces the simple value. *)
heat_index_uses_regression(f, rh) == heat_index_simple(f, rh) > 79 * Scale

(* Lines 230 and 234: the adjustment applied, if any. *)
heat_index_adjustment(f, rh) ==
    IF rh < 13 * Scale /\ f >= 80 * Scale /\ f <= 112 * Scale THEN "low"
    ELSE IF rh > 85 * Scale /\ f >= 80 * Scale /\ f <= 87 * Scale THEN "high"
    ELSE "none"

(* Lines 231-235. *)
heat_index_adjusted(f, rh, base, adjustment) ==
    CASE adjustment = "low" ->
           base - Mul(Mul(13 * Scale - rh, Fx(25, 100)),
                      Sqrt(Mul(17 * Scale - Abs(f - 95 * Scale),
                               Fx(5882, 100000))))
      [] adjustment = "high" ->
           base + Mul(Mul(rh - 85 * Scale, Fx(1, 10)),
                      Mul(87 * Scale - f, Fx(2, 10)))
      [] OTHER -> base

(* Lines 216-235, in Fahrenheit. *)
heat_index_fahrenheit(f, rh) ==
    heat_index_adjusted(f, rh,
        IF heat_index_uses_regression(f, rh) THEN heat_index_regression(f, rh)
        ELSE heat_index_simple(f, rh),
        heat_index_adjustment(f, rh))

compute_heat_index(temperature, humidity) ==
    Num(Round2(fahrenheit_to_celsius(
        heat_index_fahrenheit(celsius_to_fahrenheit(temperature), humidity))))

(* Variant: a dew point equal to the first band end stays below it. *)
perception_of_inclusive(dew_point) ==
    IF dew_point.tag = "raise" THEN dew_point
    ELSE IF dew_point.num <= 1000 THEN Str("A bit dry for some")
    ELSE IF dew_point.num < 1300 THEN Str("Very comfortable")
    ELSE IF dew_point.num < 1600 THEN Str("Comfortable")
    ELSE IF dew_point.num < 1800 THEN Str("OK for most")
    ELSE IF dew_point.num < 2100 THEN Str("Somewhat uncomfortable")
    ELSE IF dew_point.num < 2400 THEN Str("Very humid, quite uncomfortable")
    ELSE IF dew_point.num < 2600 THEN Str("Extremely uncomfortable")
    ELSE Str("Severely high")

(* Lines 243-257: the band of a dew point. *)
perception_of(dew_point) ==
    IF dew_point.tag = "raise" THEN dew_point
    ELSE IF dew_point.num < 1000 THEN Str("A bit dry for some")
    ELSE IF dew_point.num < 1300 THEN Str("Very comfortable")
    ELSE IF dew_point.num < 1600 THEN Str("Comfortable")
    ELSE IF dew_point.num < 1800 THEN Str("OK for most")
    ELSE IF dew_point.num < 2100 THEN Str("Somewhat uncomfortable")
    ELSE IF dew_point.num < 2400 THEN Str("Very humid, quite uncomfortable")
    ELSE IF dew_point.num < 2600 THEN Str("Extremely uncomfortable")
    ELSE Str("Severely high")

compute_perception(temperature, humidity) ==
    perception_of(compute_dew_point(temperature, humidity))

(* The last two steps of lines 263-267, (x * 2.1674) / abs_temperature,    *)
(* are one rounded operation: the product alone exceeds 32 bits.           *)
compute_absolute_humidity(temperature, humidity) ==
    Num(Round2(MulDiv(
        Mul(Mul(Fx(6112, 1000),
                Exp(Div(Mul(Fx(1767, 100), temperature),
                        Fx(2435, 10) + temperature))),
            humidity),
        Fx(21674, 10000),
        temperature + Fx(27315, 100))))

(* Variant: the floor of the simmer index includes 70 F. *)
simmer_index_fahrenheit_inclusive(f, rh) ==
    IF f <= 70 * Scale THEN f
    ELSE Mul(Fx(198, 100),
             f - Mul(Fx(55, 100) - Mul(Fx(55, 10000), rh), f - 58 * Scale))
         - Fx(5683, 100)

(* Lines 275-281, in Fahrenheit. *)
simmer_index_fahrenheit(f, rh) ==
    IF f < 70 * Scale THEN f
    ELSE Mul(Fx(198, 100),
             f - Mul(Fx(55, 100) - Mul(Fx(55, 10000), rh), f - 58 * Scale))
         - Fx(5683, 100)

compute_simmer_index(temperature, humidity) ==
    Num(Round2(fahrenheit_to_celsius(
        simmer_index_fahrenheit(celsius_to_fahrenheit(temperature), humidity))))

(* Variant: a simmer index equal to the last band end stays below it. *)
simmer_zone_of_inclusive(simmer_index) ==
    IF simmer_index.num < 2110 THEN Str("")
    ELSE IF simmer_index.num < 2500 THEN Str("Slightly cool")
    ELSE IF simmer_index.num < 2830 THEN Str("Comfortable")
    ELSE IF simmer_index.num < 3280 THEN Str("Slightly warm")
    ELSE IF simmer_index.num < 3780 THEN Str("Increasing discomfort")
    ELSE IF simmer_index.num < 4440 THEN Str("Extremely warm")
    ELSE IF simmer_index.num < 5170 THEN Str("Danger of heatstroke")
    ELSE IF simmer_index.num <= 6560 THEN Str("Extreme danger of heatstroke")
    ELSE Str("Circulatory collapse imminent")

(* Lines 289-305: the band of a simmer index. *)
simmer_zone_of(simmer_index) ==
    IF simmer_index.num < 2110 THEN Str("")
    ELSE IF simmer_index.num < 2500 THEN Str("Slightly cool")
    ELSE IF simmer_index.num < 2830 THEN Str("Comfortable")
    ELSE IF simmer_index.num < 3280 THEN Str("Slightly warm")
    ELSE IF simmer_index.num < 3780 THEN Str("Increasing discomfort")
    ELSE IF simmer_index.num < 4440 THEN Str("Extremely warm")
    ELSE IF simmer_index.num < 5170 THEN Str("Danger of heatstroke")
    ELSE IF simmer_index.num < 6560 THEN Str("Extreme danger of heatstroke")
    ELSE Str("Circulatory collapse imminent")

compute_simmer_zone(temperature, humidity) ==
    simmer_zone_of(compute_simmer_index(temperature, humidity))

(***************************************************************************)
(* The entity.                                                             *)
(***************************************************************************)

(* SENSOR_TYPES, lines 62-73. *)
SENSOR_TYPES ==
    {"absolutehumidity", "heatindex", "dewpoint", "perception",
     "simmerindex", "simmerzone"}

(* A feed's State object as a listener receives it: no object at all, or   *)
(* one whose state string is "unknown", "unavailable", the text of a       *)
(* float ("number", with its value) or any other text ("text"), and the    *)
(* unit_of_measurement attribute.                                          *)
NoState == [exists |-> FALSE, state |-> "", value |-> 0, unit |-> ""]
StateObj(s, v, u) == [exists |-> TRUE, state |-> s, value |-> v, unit |-> u]

(* Readings the temperature feed delivers: 0 C, 25 C, 23 F (= -5 C). *)
TemperatureStates ==
    {NoState, StateObj("unknown", 0, "C"), StateObj("unavailable", 0, "C"),
     StateObj("text", 0, "C"), StateObj("text", 0, "F"),
     StateObj("number", 0, "C"), StateObj("number", 25 * Scale, "C"),
     StateObj("number", 23 * Scale, "F")}

(* Readings the humidity feed delivers: 0 % and 50 %. *)
HumidityStates ==
    {NoState, StateObj("unknown", 0, "%"), StateObj("unavailable", 0, "%"),
     StateObj("text", 0, "%"),
     StateObj("number", 0, "%"), StateObj("number", 50 * Scale, "%")}

(* new_state and new_state.state not in (STATE_UNKNOWN, STATE_UNAVAILABLE) *)
is_valid(new_state) ==
    new_state.exists /\ new_state.state \notin {"unknown", "unavailable"}

(* float(state.state): ValueError unless the text is a float's. *)
to_float(st) ==
    IF st.state = "number" THEN Num(st.value) ELSE Raise("ValueError")

(* util.convert(state.state, float): the default, None, when float() fails. *)
convert_float(st) ==
    IF to_float(st).tag = "raise" THEN None ELSE to_float(st)

(* temperature_state_as_celcius: None - 32.0 is a TypeError. *)
temperature_state_as_celcius(temperature_state) ==
    LET temp == convert_float(temperature_state)
    IN  IF temperature_state.unit = "F"
        THEN IF temp = None THEN Raise("TypeError")
             ELSE Num(fahrenheit_to_celsius(temp.num))
        ELSE temp

(* The pending updates the model follows at once. *)
MaxPending == 2

VARIABLES
    sensor_type,     \* self._sensor_type
    temperature,     \* self._temperature
    humidity,        \* self._humidity
    state,           \* self._state
    attributes,      \* self._device_state_attributes
    pending,         \* updates scheduled by async_schedule_update_ha_state
    last,            \* history: the step just taken
    seen,            \* history: the latest valid reading of each feed
    only_valid,      \* history: every event so far carried a float
    call,            \* a direct call of a compute_* function
    ret              \* what that call returned

vars == <<sensor_type, temperature, humidity, state, attributes, pending,
          last, seen, only_valid, call, ret>>

entity_vars == <<sensor_type, temperature, humidity, state, attributes,
                 pending, last, seen, only_valid>>

NotCalled == [fn |-> "", temperature |-> 0, humidity |-> 0]

Step(op, kind, invoked, prev) ==
    [op |-> op, kind |-> kind, invoked |-> invoked, prev |-> prev]

(* What a listener's event is, for the history. *)
kind_of(new_state) ==
    IF ~new_state.exists THEN "absent" ELSE new_state.state

(* __init__, lines 131-166: the readings the feeds hold at construction    *)
(* are taken as the listeners take them; a humidity text makes float()     *)
(* raise and no entity is built.                                           *)
initial_temperature(temperature_state) ==
    IF is_valid(temperature_state)
    THEN temperature_state_as_celcius(temperature_state)
    ELSE None

initial_humidity(humidity_state) ==
    IF is_valid(humidity_state) THEN to_float(humidity_state) ELSE None

EntityInit ==
    /\ sensor_type \in SENSOR_TYPES
    /\ \E temperature_state \in TemperatureStates :
         \E humidity_state \in HumidityStates :
            /\ initial_temperature(temperature_state).tag # "raise"
            /\ initial_humidity(humidity_state).tag # "raise"
            /\ temperature = initial_temperature(temperature_state)
            /\ humidity = initial_humidity(humidity_state)
            /\ seen = [temperature |-> initial_temperature(temperature_state),
                       humidity |-> initial_humidity(humidity_state)]
            /\ only_valid =
                 /\ temperature_state.state \in {"", "number"}
                 /\ humidity_state.state \in {"", "number"}
    /\ state = None
    /\ attributes = <<>>
    /\ pending = 0
    /\ last = Step("__init__", "", FALSE, "None")

Init ==
    /\ EntityInit
    /\ call = NotCalled
    /\ ret = None

(* Variant: the update is scheduled only for a reading that was taken. *)
temperature_state_listener_guarded(new_state) ==
    LET converted == temperature_state_as_celcius(new_state)
        raised    == is_valid(new_state) /\ converted.tag = "raise"
    IN  /\ pending < MaxPending
        /\ temperature' = IF is_valid(new_state) /\ ~raised THEN converted
                          ELSE temperature
        /\ pending' = IF is_valid(new_state) /\ ~raised THEN pending + 1
                      ELSE pending
        /\ seen' = IF is_valid(new_state) /\ converted.tag = "float"
                   THEN [seen EXCEPT !.temperature = converted] ELSE seen
        /\ only_valid' = (only_valid /\ new_state.state = "number")
        /\ last' = Step("temperature_state_listener", kind_of(new_state),
                        FALSE, state.tag)
        /\ UNCHANGED <<sensor_type, humidity, state, attributes, call, ret>>

(* temperature_state_listener, lines 168-178.  An exception raised by the  *)
(* conversion leaves the listener before anything is assigned or           *)
(* scheduled.                                                              *)
temperature_state_listener(new_state) ==
    LET converted == temperature_state_as_celcius(new_state)
        raised    == is_valid(new_state) /\ converted.tag = "raise"
    IN  /\ pending < MaxPending
        /\ temperature' = IF is_valid(new_state) /\ ~raised THEN converted
                          ELSE temperature
        /\ pending' = IF raised THEN pending ELSE pending + 1
        /\ seen' = IF is_valid(new_state) /\ converted.tag = "float"
                   THEN [seen EXCEPT !.temperature = converted] ELSE seen
        /\ only_valid' = (only_valid /\ new_state.state = "number")
        /\ last' = Step("temperature_state_listener", kind_of(new_state),
                        FALSE, state.tag)
        /\ UNCHANGED <<sensor_type, humidity, state, attributes, call, ret>>

(* humidity_state_listener, lines 180-188. *)
humidity_state_listener(new_state) ==
    LET converted == to_float(new_state)
        raised    == is_valid(new_state) /\ converted.tag = "raise"
    IN  /\ pending < MaxPending
        /\ humidity' = IF is_valid(new_state) /\ ~raised THEN converted
                       ELSE humidity
        /\ pending' = IF raised THEN pending ELSE pending + 1
        /\ seen' = IF is_valid(new_state) /\ converted.tag = "float"
                   THEN [seen EXCEPT !.humidity = converted] ELSE seen
        /\ only_valid' = (only_valid /\ new_state.state = "number")
        /\ last' = Step("humidity_state_listener", kind_of(new_state),
                        FALSE, state.tag)
        /\ UNCHANGED <<sensor_type, temperature, state, attributes, call, ret>>

(* Variants of line 352: no test at all, and a test for presence. *)
inputs_known_always == TRUE
inputs_known_present == temperature # None /\ humidity # None

(* Line 352: if self._temperature and self._humidity. *)
inputs_known == Truthy(temperature) /\ Truthy(humidity)

(* Lines 353-376: the formula the sensor type selects. *)
compute(kind, t, h) ==
    CASE kind = "dewpoint" -> compute_dew_point(t, h)
      [] kind = "heatindex" -> compute_heat_index(t, h)
      [] kind = "perception" -> compute_perception(t, h)
      [] kind = "absolutehumidity" -> compute_absolute_humidity(t, h)
      [] kind = "simmerindex" -> compute_simmer_index(t, h)
      [] kind = "simmerzone" -> compute_simmer_zone(t, h)
      [] OTHER -> None

(* Lines 351-376: value. *)
update_value ==
    IF inputs_known THEN compute(sensor_type, temperature.num, humidity.num)
    ELSE None

(* Lines 379-380. *)
update_attributes == [temperature |-> temperature, humidity |-> humidity]

(* Lines 378-380, reached unless the formula raised. *)
publish(value) ==
    /\ state' = IF value.tag = "raise" THEN state ELSE value
    /\ attributes' = IF value.tag = "raise" THEN attributes
                     ELSE update_attributes

(* One scheduled update: async_update, lines 349-380, for an entity        *)
(* configured without icon and picture templates (lines 386-387 skip       *)
(* both).  A formula that raises ends the update before line 378.          *)
async_update ==
    /\ pending > 0
    /\ pending' = pending - 1
    /\ publish(update_value)
    /\ last' = Step("async_update", "", inputs_known, state.tag)
    /\ UNCHANGED <<sensor_type, temperature, humidity, seen, only_valid,
                   call, ret>>

Next ==
    \/ \E new_state \in TemperatureStates : temperature_state_listener(new_state)
    \/ \E new_state \in HumidityStates : humidity_state_listener(new_state)
    \/ async_update

Spec == Init /\ [][Next]_vars

(***************************************************************************)
(* The static compute_* functions called directly, on inputs that meet     *)
(* the ends of every band and branch.                                      *)
(***************************************************************************)

Call(fn, t, h) == [fn |-> fn, temperature |-> t, humidity |-> h]

Pending == [tag |-> "pending", num |-> 0, str |-> ""]

(* Hundredths of a percent at which the dew point at 30 C is 0.01 below,   *)
(* at and 0.01 above the ends 10, 13, 16, 18, 21, 24, 26 of the            *)
(* perception bands, and where it is 14.00.                                *)
BandHumidities ==
    {2889, 2890, 2892, 3523, 3525, 3528, 3763, 4277, 4280, 4282, 4855, 4858,
     4861, 5850, 5854, 5857, 7020, 7024, 7028, 7909, 7914, 7918}

(* Humidities outside and at the edge of the domain of the dew point. *)
DewPointCalls ==
    {Call(fn, t * Scale, h * (Scale \div 100)) :
        fn \in {"compute_dew_point", "compute_perception"},
        t \in {-20, 0, 30},
        h \in {-10000, -100, -1, 0, 10, 100, 5000, 10000}}
    \cup {Call(fn, 30 * Scale, h * (Scale \div 100)) :
        fn \in {"compute_dew_point", "compute_perception"},
        h \in BandHumidities}

(* Thousandths of a degree at which the simmer index at 50 % is 0.01       *)
(* below, at and 0.01 above the ends 25.0, 28.3, 32.8, 37.8, 44.4, 51.7,   *)
(* 65.6 of the simmer zones; 21.09, 21.1 and 21.11 C are their own simmer  *)
(* index, and so is 20.0 C.                                                *)
ZoneTemperatures ==
    {20000, 21090, 21100, 21110,
     21784, 21791, 21798, 24083, 24090, 24097, 27217, 27224, 27231,
     30701, 30708, 30715, 35298, 35305, 35312, 40384, 40391, 40398,
     50067, 50074, 50081}

(* Celsius readings below, at (190/9 C is 70 F) and above the floor of     *)
(* the simmer index, for several humidities.                               *)
SimmerCalls ==
    {Call(fn, t * (Scale \div 1000), 50 * Scale) :
        fn \in {"compute_simmer_index", "compute_simmer_zone"},
        t \in ZoneTemperatures}
    \cup {Call("compute_simmer_index", t, h * Scale) :
        t \in {-5 * Scale, 15 * Scale, 21 * Scale, (190 * Scale) \div 9 - 1,
               (190 * Scale) \div 9, (190 * Scale) \div 9 + 1, 25 * Scale,
               35 * Scale},
        h \in {0, 10, 50, 90, 100}}

(* Fahrenheit readings (hundredths) and humidities (hundredths) around     *)
(* the ends of the heat index's branches: 79.9 F with 30 % and 77.55 F     *)
(* with 85 % give a simple value of exactly 79.                            *)
HeatIndexCalls ==
    {Call("compute_heat_index", (f - 3200) * 500, h * (Scale \div 100)) :
        f \in {6800, 7755, 7756, 7989, 7990, 7991, 7999, 8000, 8001, 8699,
               8700, 8701, 9500, 11199, 11200, 11201},
        h \in {0, 1299, 1300, 1301, 2999, 3000, 3001, 8499, 8500, 8501,
               10000}}

AbsoluteHumidityCalls ==
    {Call("compute_absolute_humidity", t * Scale, h * Scale) :
        t \in {-20, 0, 20, 40}, h \in {0, 50, 100}}

Calls == DewPointCalls \cup SimmerCalls \cup HeatIndexCalls
         \cup AbsoluteHumidityCalls

(* The static method a call names, lines 198-305. *)
call_function(c) ==
    CASE c.fn = "compute_dew_point" ->
           compute_dew_point(c.temperature, c.humidity)
      [] c.fn = "compute_heat_index" ->
           compute_heat_index(c.temperature, c.humidity)
      [] c.fn = "compute_perception" ->
           compute_perception(c.temperature, c.humidity)
      [] c.fn = "compute_absolute_humidity" ->
           compute_absolute_humidity(c.temperature, c.humidity)
      [] c.fn = "compute_simmer_index" ->
           compute_simmer_index(c.temperature, c.humidity)
      [] c.fn = "compute_simmer_zone" ->
           compute_simmer_zone(c.temperature, c.humidity)

CalcInit ==
    /\ sensor_type = "dewpoint"
    /\ temperature = None
    /\ humidity = None
    /\ seen = [temperature |-> None, humidity |-> None]
    /\ only_valid = TRUE
    /\ state = None
    /\ attributes = <<>>
    /\ pending = 0
    /\ last = Step("__init__", "", FALSE, "None")
    /\ call \in Calls
    /\ ret = Pending

CalcCall ==
    /\ ret = Pending
    /\ ret' = call_function(call)
    /\ UNCHANGED <<call, entity_vars>>

CalcNext == CalcCall

SpecCalc == CalcInit /\ [][CalcNext]_vars

(***************************************************************************)
(* Properties.                                                             *)
(***************************************************************************)

Listeners == {"temperature_state_listener", "humidity_state_listener"}

(* C1: an event whose new state is absent, "unknown" or "unavailable"      *)
(* leaves both cached readings unchanged; a cached reading, once set, is   *)
(* never unset again; a temperature event never changes the cached         *)
(* humidity and a humidity event never changes the cached temperature.     *)
C1_ReadingsKept ==
    [][/\ (last'.op \in Listeners
           /\ last'.kind \in {"absent", "unknown", "unavailable"})
          => (temperature' = temperature /\ humidity' = humidity)
       /\ temperature.tag = "float" => temperature'.tag = "float"
       /\ humidity.tag = "float" => humidity'.tag = "float"
       /\ last'.op = "temperature_state_listener" => humidity' = humidity
       /\ last'.op = "humidity_state_listener" => temperature' = temperature
      ]_vars

(* C2, as stated: an event whose new state is "unknown" or "unavailable"   *)
(* schedules no update.                                                    *)
C2_NoUpdateScheduled ==
    [][(last'.op \in Listeners /\ last'.kind \in {"unknown", "unavailable"})
       => pending' = pending]_vars

(* C2, amended: an event whose new state is absent, "unknown" or           *)
(* "unavailable" schedules exactly one update, and itself changes neither  *)
(* cached reading nor the published value and attributes.                  *)
C2_UpdateScheduledReadingsKept ==
    [][(last'.op \in Listeners
        /\ last'.kind \in {"absent", "unknown", "unavailable"})
       => /\ pending' = pending + 1
          /\ temperature' = temperature
          /\ humidity' = humidity
          /\ state' = state
          /\ attributes' = attributes]_vars

(* C2 witness: an "unknown" or "unavailable" event has just been handled   *)
(* with both readings cached, and its update is pending.                   *)
C2_Witness ==
    /\ last.op \in Listeners
    /\ last.kind \in {"unknown", "unavailable"}
    /\ temperature.tag = "float"
    /\ humidity.tag = "float"
    /\ pending > 0

(* C3: when only valid events have been seen, an update that has just run  *)
(* publishes the selected formula applied to the latest valid temperature  *)
(* and the latest valid humidity, and those two readings as attributes.    *)
C3_LastValueWins ==
    (/\ only_valid
     /\ last.op = "async_update"
     /\ seen.temperature.tag = "float"
     /\ seen.humidity.tag = "float")
    => /\ state = compute(sensor_type, seen.temperature.num, seen.humidity.num)
       /\ attributes = [temperature |-> seen.temperature,
                        humidity |-> seen.humidity]

(* C4: an update that has just run while the temperature or the humidity   *)
(* is unset invoked no formula and published None, for every sensor type.  *)
C4_MissingInputSuppressed ==
    (last.op = "async_update" /\ (temperature = None \/ humidity = None))
    => (state = None /\ ~last.invoked)

(* C4 witness: an update has run with the humidity cached and the          *)
(* temperature never received.                                             *)
C4_Witness ==
    /\ last.op = "async_update"
    /\ temperature = None
    /\ humidity.tag = "float" /\ humidity.num # 0
    /\ state = None

(* C5: an update that has just run with a cached temperature or humidity   *)
(* of exactly 0 invoked no formula and published None; with both readings  *)
(* non-zero (negative temperatures included) it published the formula's    *)
(* value.                                                                  *)
C5_ZeroIsMissing ==
    last.op = "async_update"
    => /\ (temperature = Num(0) \/ humidity = Num(0))
          => (state = None /\ ~last.invoked)
       /\ (/\ temperature.tag = "float" /\ temperature.num # 0
           /\ humidity.tag = "float" /\ humidity.num # 0)
          => /\ last.invoked
             /\ state.tag \in {"float", "str"}
             /\ state = compute(sensor_type, temperature.num, humidity.num)

(* C5 witness: a number had been published, and the update that has just   *)
(* run with a temperature of 0 and a non-zero humidity published None.     *)
C5_Witness ==
    /\ last.op = "async_update"
    /\ last.prev = "float"
    /\ temperature = Num(0)
    /\ humidity.tag = "float" /\ humidity.num # 0
    /\ state = None

PerceptionEnds == <<1000, 1300, 1600, 1800, 2100, 2400, 2600>>

PerceptionLabels ==
    <<"A bit dry for some", "Very comfortable", "Comfortable", "OK for most",
      "Somewhat uncomfortable", "Very humid, quite uncomfortable",
      "Extremely uncomfortable", "Severely high">>

(* The label of the band a value falls in: one more than the number of     *)
(* band ends at or below it.                                               *)
BandOf(value, ends, labels) ==
    labels[1 + Cardinality({i \in DOMAIN ends : ends[i] <= value})]

(* C6: compute_perception answers, for every dew point, the label of the   *)
(* one half-open band it falls in: a dew point equal to a band end is in   *)
(* the band above it.                                                      *)
C6_PerceptionBands ==
    (/\ call.fn = "compute_perception"
     /\ ret # Pending
     /\ compute_dew_point(call.temperature, call.humidity).tag = "float")
    => ret = Str(BandOf(compute_dew_point(call.temperature, call.humidity).num,
                        PerceptionEnds, PerceptionLabels))

(* C6 witness: a dew point of exactly 10.00 was labelled                   *)
(* "Very comfortable".                                                     *)
C6_Witness ==
    /\ call.fn = "compute_perception"
    /\ compute_dew_point(call.temperature, call.humidity) = Num(1000)
    /\ ret = Str("Very comfortable")

SimmerZoneEnds == <<2110, 2500, 2830, 3280, 3780, 4440, 5170, 6560>>

SimmerZoneLabels ==
    <<"", "Slightly cool", "Comfortable", "Slightly warm",
      "Increasing discomfort", "Extremely warm", "Danger of heatstroke",
      "Extreme danger of heatstroke", "Circulatory collapse imminent">>

(* C7: compute_simmer_zone answers, for every simmer index, the label of   *)
(* the one half-open band it falls in: "" below 21.1, a simmer index       *)
(* equal to a band end in the band above it, and "Circulatory collapse     *)
(* imminent" from 65.6 on.                                                 *)
C7_SimmerZoneBands ==
    (call.fn = "compute_simmer_zone" /\ ret # Pending)
    => ret = Str(BandOf(
                 compute_simmer_index(call.temperature, call.humidity).num,
                 SimmerZoneEnds, SimmerZoneLabels))

(* C7 witness: a simmer index of exactly 65.60 was labelled                *)
(* "Circulatory collapse imminent".                                        *)
C7_Witness ==
    /\ call.fn = "compute_simmer_zone"
    /\ compute_simmer_index(call.temperature, call.humidity) = Num(6560)
    /\ ret = Str("Circulatory collapse imminent")

(* C8: below 70 F compute_simmer_index answers the Celsius input rounded   *)
(* to 2 decimals, whatever the humidity; from exactly 70 F on the answer   *)
(* depends on the humidity (it grows with it).                             *)
C8_SimmerIndexFloor ==
    (call.fn = "compute_simmer_index" /\ ret # Pending)
    => IF 9 * call.temperature < 5 * 38 * Scale
       THEN /\ ret = Num(Round2(call.temperature))
            /\ ret = Num(Round2(fahrenheit_to_celsius(
                                 celsius_to_fahrenheit(call.temperature))))
       ELSE \A c \in SimmerCalls :
              (/\ c.fn = call.fn
               /\ c.temperature = call.temperature
               /\ c.humidity > call.humidity)
              => compute_simmer_index(c.temperature, c.humidity).num > ret.num

(* C8 witness: 15 C (59 F) at 50 % answered 15.00. *)
C8_Witness ==
    /\ call = Call("compute_simmer_index", 15 * Scale, 50 * Scale)
    /\ ret = Num(1500)

(* The reading of a heat index call in hundredths of a degree Fahrenheit   *)
(* and its humidity in hundredths of a percent.                            *)
CallF100 == call.temperature \div 500 + 3200
CallH100 == call.humidity \div (Scale \div 100)

(* The branches the piecewise definition selects, in exact arithmetic:     *)
(* 0.5 * (F + 61 + 1.2 (F - 68) + 0.094 RH) > 79 is                        *)
(* 1100 F + 47 RH > 89300.                                                 *)
C9_Regression == 1100 * CallF100 + 47 * CallH100 > 8930000
C9_Low == CallH100 < 1300 /\ CallF100 >= 8000 /\ CallF100 <= 11200
C9_High == CallH100 > 8500 /\ CallF100 >= 8000 /\ CallF100 <= 8700

(* C9: compute_heat_index takes the regression exactly when the simple     *)
(* value exceeds 79, subtracts the low-humidity adjustment exactly when    *)
(* RH < 13 and 80 <= F <= 112, adds the high-humidity adjustment exactly   *)
(* when RH > 85 and 80 <= F <= 87, never both, and answers the value so    *)
(* selected.                                                               *)
C9_HeatIndexBranches ==
    (call.fn = "compute_heat_index" /\ ret # Pending)
    => LET f  == celsius_to_fahrenheit(call.temperature)
           rh == call.humidity
       IN  /\ heat_index_uses_regression(f, rh) <=> C9_Regression
           /\ heat_index_adjustment(f, rh) = "low" <=> C9_Low
           /\ heat_index_adjustment(f, rh) = "high" <=> C9_High
           /\ ~(C9_Low /\ C9_High)
           /\ ret = Num(Round2(fahrenheit_to_celsius(
                      heat_index_adjusted(f, rh,
                          IF C9_Regression THEN heat_index_regression(f, rh)
                          ELSE heat_index_simple(f, rh),
                          IF C9_Low THEN "low"
                          ELSE IF C9_High THEN "high" ELSE "none"))))

(* C9 witness: 79.9 F at 30 % has a simple value of exactly 79, which was  *)
(* kept.                                                                   *)
C9_Witness ==
    /\ call.fn = "compute_heat_index"
    /\ ret # Pending
    /\ CallF100 = 7990 /\ CallH100 = 3000
    /\ heat_index_simple(celsius_to_fahrenheit(call.temperature),
                         call.humidity) = 79 * Scale
    /\ ret = Num(Round2(fahrenheit_to_celsius(79 * Scale)))

(* C10: compute_dew_point with a humidity of 0 or less raises ValueError   *)
(* and answers no number, and so does compute_perception; with a humidity  *)
(* above 0 compute_dew_point answers a number and compute_perception a     *)
(* label.                                                                  *)
C10_DewPointDomain ==
    (call.fn \in {"compute_dew_point", "compute_perception"} /\ ret # Pending)
    => IF call.humidity <= 0 THEN ret = Raise("ValueError")
       ELSE ret.tag = (IF call.fn = "compute_dew_point" THEN "float" ELSE "str")

(* C10 witness: compute_perception was called with a humidity of 0 and     *)
(* raised ValueError.                                                      *)
C10_Witness ==
    /\ call.fn = "compute_perception"
    /\ call.humidity = 0
    /\ ret = Raise("ValueError")

=============================================================================
